---- MODULE Spec2Model ----
(***************************************************************************)
(* Model of the portfolio rebalancing core of guscsales/rebalance:         *)
(* services/rebalance.ts (calculateTargetWeights, calculateRebalance,      *)
(* calculateAssetStates, allocateBuyBudget) and services/budget.ts         *)
(* (calculateAllowedSellProceeds, calculateBuyBudget, canSellAsset).       *)
(*                                                                         *)
(* In Spec, FairSpec, SoleAssetSpec and AnyPortfolioSpec a JavaScript      *)
(* number is an exact                                                      *)
(* rational [n, d] kept in lowest terms with d > 0, so that two numbers    *)
(* are equal exactly when their records are equal: the rounding of         *)
(* IEEE-754 doubles is not part of these specifications, whose statements  *)
(* are about the arithmetic the code writes down, carried out exactly.     *)
(* ConversionSpec models the last steps of a run, shares to amount and     *)
(* amount to quantity, in IEEE-754 binary64 with correct rounding, and     *)
(* SaleSpec a whole run of calculateRebalance that can only sell.          *)
(*                                                                         *)
(* One run of the model is one pass of the caller in components/App.tsx:   *)
(* the weights are computed from the assets, then calculateRebalance is    *)
(* run on them, one action per step or loop round of the code.             *)
(***************************************************************************)
EXTENDS Integers, Sequences, FiniteSets

\* ------------------------------------------------------------------------
\* Bounds of the input space
\* ------------------------------------------------------------------------
MaxPriority == 2
MaxQuantity == 2
MaxPrice == 2
MaxCash == 3

\* the price and the cash of the sole-asset scenario, and an amount of cash
\* that buys more shares than the buy loop has rounds
SolePrice == 10
SoleCash == 100
LargeCash == 10002

\* prices in cents and share counts of the share-conversion specification
MaxPriceCents == 6
MaxShares == 12

\* the tickers requested in one call of fetchAllPrices
MaxFetches == 3

\* The tickers of the configured assets, in configuration order.  An asset
\* list is a non-empty prefix of it (tickers are unique).
Tickers == <<"AAA", "BBB">>

\* ------------------------------------------------------------------------
\* Program constants
\* ------------------------------------------------------------------------
\* const maxIterations = 10 of the reference-total loop
SolverMaxIterations == 10
\* const maxIterations = 10000 of the buy loop
AuctionMaxIterations == 10000
\* the convergence tolerance 0.01 is 1 / ToleranceInverse
ToleranceInverse == 100

\* ------------------------------------------------------------------------
\* Exact arithmetic on numbers
\* ------------------------------------------------------------------------
Abs(i) == IF i < 0 THEN -i ELSE i

RECURSIVE GCD(_, _)
GCD(a, b) == IF b = 0 THEN a ELSE GCD(b, a % b)

\* n / d in lowest terms, for d > 0
Rat(n, d) ==
    LET g == GCD(Abs(n), d)
    IN  [n |-> n \div g, d |-> d \div g]

Num(i) == [n |-> i, d |-> 1]
Zero == Num(0)

RNeg(a) == [n |-> -a.n, d |-> a.d]
RAbs(a) == [n |-> Abs(a.n), d |-> a.d]

RAdd(a, b) ==
    LET g == GCD(a.d, b.d)
    IN  Rat(a.n * (b.d \div g) + b.n * (a.d \div g), (a.d \div g) * b.d)

RSub(a, b) == RAdd(a, RNeg(b))

RMul(a, b) ==
    LET g1 == GCD(Abs(a.n), b.d)
        g2 == GCD(Abs(b.n), a.d)
    IN  IF a.n = 0 \/ b.n = 0 THEN Zero
        ELSE [n |-> (a.n \div g1) * (b.n \div g2),
              d |-> (a.d \div g2) * (b.d \div g1)]

\* a / b for b > 0
RDiv(a, b) == RMul(a, [n |-> b.d, d |-> b.n])

RIsNeg(a) == a.n < 0
RIsPos(a) == a.n > 0
RLt(a, b) == RIsNeg(RSub(a, b))
RLe(a, b) == ~RIsPos(RSub(a, b))
RGe(a, b) == RLe(b, a)
RGt(a, b) == RLt(b, a)

\* Math.floor
RFloor(a) == a.n \div a.d

\* sum of a sequence of numbers, left to right from 0 (Array.reduce)
RECURSIVE RSum(_)
RSum(s) == IF s = <<>> THEN Zero
           ELSE RAdd(RSum(SubSeq(s, 1, Len(s) - 1)), s[Len(s)])

\* ------------------------------------------------------------------------
\* IEEE-754 binary64, the arithmetic of a JavaScript number, for the steps
\* that turn share counts into amounts and amounts back into quantities.
\* A natural number is the sequence of its digits in base 2^15, lowest digit
\* first, without leading zeros; a positive double is m x 2^e with a
\* significand m of exactly 53 bits; a difference carries its sign beside
\* its magnitude, [neg, abs].  Only normal values and zero occur here.
\* ------------------------------------------------------------------------
DigitBits == 15
Base == 2^DigitBits
MantissaBits == 53

BRest(a) == IF a = <<>> THEN <<>> ELSE Tail(a)
BDigit(a, i) == IF i <= Len(a) THEN a[i] ELSE 0

RECURSIVE BTrim(_)
BTrim(a) == IF a = <<>> THEN a
            ELSE IF a[Len(a)] = 0 THEN BTrim(SubSeq(a, 1, Len(a) - 1))
            ELSE a

RECURSIVE BNat(_)
BNat(i) == IF i = 0 THEN <<>> ELSE <<i % Base>> \o BNat(i \div Base)

RECURSIVE BInt(_)
BInt(a) == IF a = <<>> THEN 0 ELSE a[1] + Base * BInt(Tail(a))

RECURSIVE BAddCarry(_, _, _)
BAddCarry(a, b, carry) ==
    IF a = <<>> /\ b = <<>>
    THEN IF carry = 0 THEN <<>> ELSE <<carry>>
    ELSE LET sum == BDigit(a, 1) + BDigit(b, 1) + carry
         IN  <<sum % Base>> \o BAddCarry(BRest(a), BRest(b), sum \div Base)

BAdd(a, b) == BAddCarry(a, b, 0)
BDouble(a) == BAdd(a, a)

\* a - b for a >= b
RECURSIVE BSubBorrow(_, _, _)
BSubBorrow(a, b, borrow) ==
    IF a = <<>> THEN <<>>
    ELSE LET diff == a[1] - BDigit(b, 1) - borrow
         IN  IF diff < 0
             THEN <<diff + Base>> \o BSubBorrow(Tail(a), BRest(b), 1)
             ELSE <<diff>> \o BSubBorrow(Tail(a), BRest(b), 0)

BSub(a, b) == BTrim(BSubBorrow(a, b, 0))

RECURSIVE BLessFrom(_, _, _)
BLessFrom(a, b, i) ==
    IF i = 0 THEN FALSE
    ELSE IF a[i] # b[i] THEN a[i] < b[i]
    ELSE BLessFrom(a, b, i - 1)

BLess(a, b) == IF Len(a) # Len(b) THEN Len(a) < Len(b)
               ELSE BLessFrom(a, b, Len(a))

RECURSIVE BMulDigit(_, _, _)
BMulDigit(a, digit, carry) ==
    IF a = <<>>
    THEN IF carry = 0 THEN <<>> ELSE <<carry>>
    ELSE LET product == a[1] * digit + carry
         IN  <<product % Base>> \o BMulDigit(Tail(a), digit, product \div Base)

RECURSIVE BMul(_, _)
BMul(a, b) ==
    IF a = <<>> \/ b = <<>> THEN <<>>
    ELSE BTrim(BAdd(BMulDigit(a, b[1], 0), <<0>> \o BMul(a, Tail(b))))

BOdd(a) == a # <<>> /\ a[1] % 2 = 1

\* a \div 2^k: whole digits are dropped, the rest moves down digit by digit
BShiftRight(a, k) ==
    LET digits == k \div DigitBits
        low == 2^(k % DigitBits)
        high == IF digits >= Len(a) THEN <<>> ELSE SubSeq(a, digits + 1, Len(a))
    IN  BTrim([i \in 1..Len(high) |->
                  (high[i] \div low) + (BDigit(high, i + 1) % low) * (Base \div low)])

BHalf(a) == BShiftRight(a, 1)

\* a * 2^k
BShiftLeft(a, k) ==
    IF a = <<>> THEN a
    ELSE [i \in 1..(k \div DigitBits) |-> 0] \o BMulDigit(a, 2^(k % DigitBits), 0)

RECURSIVE IntBits(_)
IntBits(i) == IF i = 0 THEN 0 ELSE 1 + IntBits(i \div 2)

\* the number of bits of a
BBits(a) == IF a = <<>> THEN 0
            ELSE (Len(a) - 1) * DigitBits + IntBits(a[Len(a)])

DZero == [m |-> <<>>, e |-> 0]

\* the double nearest to n x 2^e (+ half and sticky bits below it), ties to
\* the even significand: the bits beyond the 53rd are cut off, the first of
\* them decides with the rest whether the significand goes up by one
RoundToDouble(n, e, half, sticky) ==
    IF n = <<>> THEN DZero
    ELSE LET cut == BBits(n) - MantissaBits
         IN  IF cut < 0
             THEN [m |-> BShiftLeft(n, -cut), e |-> e + cut]
             ELSE LET kept == BShiftRight(n, cut)
                      first == IF cut = 0 THEN half
                               ELSE BOdd(BShiftRight(n, cut - 1))
                      rest == IF cut = 0 THEN sticky
                              ELSE \/ half
                                   \/ sticky
                                   \/ BShiftLeft(BShiftRight(n, cut - 1), cut - 1) # n
                      up == BAdd(kept, <<1>>)
                  IN  IF first /\ (rest \/ BOdd(kept))
                      THEN IF BBits(up) > MantissaBits
                           THEN [m |-> BHalf(up), e |-> e + cut + 1]
                           ELSE [m |-> up, e |-> e + cut]
                      ELSE [m |-> kept, e |-> e + cut]

\* an integer as a number
DFromInt(i) == RoundToDouble(BNat(i), 0, FALSE, FALSE)

\* x * y
DMul(x, y) ==
    IF x.m = <<>> \/ y.m = <<>> THEN DZero
    ELSE RoundToDouble(BMul(x.m, y.m), x.e + y.e, FALSE, FALSE)

\* one step of a long division by d: a bit is appended to the quotient q
\* and what is left over is doubled, rem < 2 d
DivideStep(s, d) ==
    IF BLess(s.rem, d)
    THEN [q |-> BDouble(s.q), rem |-> BDouble(s.rem)]
    ELSE [q |-> BAdd(BDouble(s.q), <<1>>), rem |-> BDouble(BSub(s.rem, d))]

\* k more steps of the long division, eight at a time
RECURSIVE LongDivide(_, _, _)
LongDivide(s, d, k) ==
    IF k = 0 THEN s
    ELSE IF s.rem = <<>> THEN [q |-> BShiftLeft(s.q, k), rem |-> <<>>]
    ELSE IF k >= 8
         THEN LongDivide(
                DivideStep(DivideStep(DivideStep(DivideStep(
                DivideStep(DivideStep(DivideStep(DivideStep(s, d), d), d), d),
                    d), d), d), d),
                d, k - 8)
    ELSE LongDivide(DivideStep(s, d), d, k - 1)

\* x / y for y > 0: the quotient of the significands to 55 binary places,
\* rounded
DDiv(x, y) ==
    IF x.m = <<>> THEN DZero
    ELSE LET r == LongDivide([q |-> <<>>, rem |-> x.m], y.m, MantissaBits + 3)
         IN  RoundToDouble(r.q, x.e - y.e - (MantissaBits + 2), FALSE, r.rem # <<>>)

\* Math.floor of a number >= 0, as an integer
DFloor(x) ==
    IF x.m = <<>> THEN 0
    ELSE BInt(IF x.e >= 0 THEN BShiftLeft(x.m, x.e) ELSE BShiftRight(x.m, -x.e))

\* the number a decimal price of so many cents denotes
DFromCents(cents) == DDiv(DFromInt(cents), DFromInt(100))

\* the significand of x at the exponent e <= x.e
DAligned(x, e) == IF x.m = <<>> THEN <<>> ELSE BShiftLeft(x.m, x.e - e)

\* the lower exponent of two numbers, zero having none
DLowExp(x, y) ==
    IF x.m = <<>> THEN y.e
    ELSE IF y.m = <<>> THEN x.e
    ELSE IF x.e < y.e THEN x.e ELSE y.e

\* x < y for x, y >= 0
DLess(x, y) ==
    LET e == DLowExp(x, y) IN BLess(DAligned(x, e), DAligned(y, e))

\* x + y for x, y >= 0: the exact sum, rounded
DAdd(x, y) ==
    LET e == DLowExp(x, y)
    IN  RoundToDouble(BAdd(DAligned(x, e), DAligned(y, e)), e, FALSE, FALSE)

\* a number with its sign; -0 does not occur
DSigned(negative, magnitude) ==
    [neg |-> negative /\ magnitude.m # <<>>, abs |-> magnitude]

\* x - y for x, y >= 0: the exact difference, rounded
DSub(x, y) ==
    LET e == DLowExp(x, y)
        a == DAligned(x, e)
        b == DAligned(y, e)
    IN  IF BLess(a, b)
        THEN DSigned(TRUE, RoundToDouble(BSub(b, a), e, FALSE, FALSE))
        ELSE DSigned(FALSE, RoundToDouble(BSub(a, b), e, FALSE, FALSE))

DIsNeg(x) == x.neg
DIsPos(x) == ~x.neg /\ x.abs.m # <<>>

\* Array.map on a sequence (Array.filter is SelectSeq)
MapSeq(s, F(_)) == [i \in 1..Len(s) |-> F(s[i])]

\* ------------------------------------------------------------------------
\* Inputs
\* ------------------------------------------------------------------------
Asset == [ticker : {Tickers[i] : i \in 1..Len(Tickers)},
          priority : 0..MaxPriority,
          quantity : 0..MaxQuantity]

\* ordered asset lists with unique tickers
AssetLists ==
    UNION {{a \in [1..k -> Asset] : \A i \in 1..k : a[i].ticker = Tickers[i]}
           : k \in 1..Len(Tickers)}

TickersOf(as) == {as[i].ticker : i \in 1..Len(as)}

\* price mappings: a ticker may have no entry at all
PriceMaps(as) ==
    UNION {[ts -> 0..MaxPrice] : ts \in SUBSET TickersOf(as)}

\* mutant: a ticker without a price is priced 1
PriceOf_DefaultOne(pr, t) == IF t \in DOMAIN pr THEN Num(pr[t]) ELSE Num(1)

\* prices[ticker] || 0
PriceOf(pr, t) == IF t \in DOMAIN pr THEN Num(pr[t]) ELSE Zero

\* targetWeights[ticker] || 0
WeightOf(tw, t) == IF t \in DOMAIN tw THEN tw[t] ELSE Zero

\* ------------------------------------------------------------------------
\* services/rebalance.ts: calculateTargetWeights
\* ------------------------------------------------------------------------
TotalPriorityOf(s) == RSum(MapSeq(s, LAMBDA a : Num(a.priority)))

\* mutant: the equal split gives every asset the weight 1
calculateTargetWeights_EqualWeightOne(as) ==
    LET totalPriority == TotalPriorityOf(as)
    IN  IF totalPriority = Zero
        THEN [t \in TickersOf(as) |-> Num(1)]
        ELSE [t \in TickersOf(as) |->
                LET a == CHOOSE x \in {as[i] : i \in 1..Len(as)} : x.ticker = t
                IN  RDiv(Num(a.priority), totalPriority)]

calculateTargetWeights(as) ==
    LET totalPriority == TotalPriorityOf(as)
    IN  IF totalPriority = Zero
        THEN [t \in TickersOf(as) |-> RDiv(Num(1), Num(Len(as)))]
        ELSE [t \in TickersOf(as) |->
                LET a == CHOOSE x \in {as[i] : i \in 1..Len(as)} : x.ticker = t
                IN  RDiv(Num(a.priority), totalPriority)]

\* ------------------------------------------------------------------------
\* services/budget.ts
\* ------------------------------------------------------------------------
\* mutant: the proceeds are summed whatever the flag says
calculateAllowedSellProceeds_IgnoresFlag(states, sell) ==
    RSum(MapSeq(states, LAMBDA a :
            IF RIsNeg(a.difference) THEN RAbs(a.difference) ELSE Zero))

\* mutant: every state adds abs(difference), the underweight ones too
calculateAllowedSellProceeds_CountsAll(states, sell) ==
    IF ~sell THEN Zero
    ELSE RSum(MapSeq(states, LAMBDA a : RAbs(a.difference)))

calculateAllowedSellProceeds(states, sell) ==
    IF ~sell THEN Zero
    ELSE RSum(MapSeq(states, LAMBDA a :
                 IF RIsNeg(a.difference) THEN RAbs(a.difference) ELSE Zero))

\* mutant: the budget is the cash alone
calculateBuyBudget_CashOnly(cash, proceeds) == cash

calculateBuyBudget(cash, proceeds) == RAdd(cash, proceeds)

\* mutant: every overweight asset can be sold
canSellAsset_IgnoresFlag(asset, sell) == RIsNeg(asset.difference)

canSellAsset(asset, sell) == RIsNeg(asset.difference) /\ sell

\* ------------------------------------------------------------------------
\* services/rebalance.ts: calculateAssetStates
\* ------------------------------------------------------------------------
AssetStateOf(asset, pr, tw, total) ==
    LET price == PriceOf(pr, asset.ticker)
        currentValue == RMul(Num(asset.quantity), price)
        targetWeight == WeightOf(tw, asset.ticker)
        targetValue == RMul(targetWeight, total)
    IN  [ticker |-> asset.ticker,
         currentValue |-> currentValue,
         targetValue |-> targetValue,
         targetWeight |-> targetWeight,
         difference |-> RSub(targetValue, currentValue),
         priority |-> asset.priority]

\* mutant: the states come out in reverse asset order
calculateAssetStates_Reversed(as, pr, tw, total) ==
    [i \in 1..Len(as) |-> AssetStateOf(as[Len(as) + 1 - i], pr, tw, total)]

calculateAssetStates(as, pr, tw, total) ==
    MapSeq(as, LAMBDA a : AssetStateOf(a, pr, tw, total))

\* ------------------------------------------------------------------------
\* services/rebalance.ts: allocateBuyBudget, one round of the buy loop
\* ------------------------------------------------------------------------
\* shareAllocations.get(ticker) || 0
SharesOf(shares, t) == IF t \in DOMAIN shares THEN shares[t] ELSE 0

\* mutant: the asset's own remaining gap is not looked at
CanAcceptShare_NoGapCheck(asset, pr, shares, remaining) ==
    LET price == PriceOf(pr, asset.ticker)
    IN  ~(price = Zero \/ RGt(price, remaining))

\* the filter predicate: the asset can take one more share
CanAcceptShare(asset, pr, shares, remaining) ==
    LET price == PriceOf(pr, asset.ticker)
        currentAllocation == RMul(Num(SharesOf(shares, asset.ticker)), price)
    IN  /\ ~(price = Zero \/ RGt(price, remaining))
        /\ RGe(RSub(asset.difference, currentAllocation), price)

\* mutant: only the first underweight asset is asked whether it can take a
\* share
AssetsNeedingMore_FirstOnly(under, pr, shares, remaining) ==
    SelectSeq(SubSeq(under, 1, 1), LAMBDA a : CanAcceptShare(a, pr, shares, remaining))

AssetsNeedingMore(under, pr, shares, remaining) ==
    SelectSeq(under, LAMBDA a : CanAcceptShare(a, pr, shares, remaining))

\* the score record of one candidate among the candidates of the round
AssetScore(asset, needing, pr) ==
    LET price == PriceOf(pr, asset.ticker)
        totalPriority == TotalPriorityOf(needing)
        priorityWeight ==
            IF RIsPos(totalPriority)
            THEN RDiv(Num(asset.priority), totalPriority)
            ELSE RDiv(Num(1), Num(Len(needing)))
    IN  [ticker |-> asset.ticker,
         score |-> RDiv(priorityWeight, price),
         price |-> price]

\* mutant: among equal highest scores the latest candidate is taken
FirstOfSorted_LastOfTies(scores) ==
    LET best == CHOOSE i \in 1..Len(scores) :
                    /\ \A j \in 1..Len(scores) : RLe(scores[j].score, scores[i].score)
                    /\ \A j \in (i + 1)..Len(scores) : RLt(scores[j].score, scores[i].score)
    IN  scores[best]

\* assetScores.sort((a, b) => b.score - a.score)[0]: the sort is stable, so
\* the first element is the earliest candidate of the highest score
FirstOfSorted(scores) ==
    LET best == CHOOSE i \in 1..Len(scores) :
                    /\ \A j \in 1..Len(scores) : RLe(scores[j].score, scores[i].score)
                    /\ \A j \in 1..(i - 1) : RLt(scores[j].score, scores[i].score)
    IN  scores[best]

\* mutant: the budget is not reduced by the share bought
BudgetAfterBuy_Unchanged(remaining, price) == remaining

\* remainingBudget -= winner.price
BudgetAfterBuy(remaining, price) == RSub(remaining, price)

\* mutant: the share counts are returned as if they were amounts
ConvertAllocations_SharesOnly(shares, pr) ==
    [t \in DOMAIN shares |-> Num(shares[t])]

\* shares x price per ticker
ConvertAllocations(shares, pr) ==
    [t \in DOMAIN shares |-> RMul(Num(shares[t]), PriceOf(pr, t))]

\* buyAllocations.get(ticker) || 0
AllocationOf(alloc, t) == IF t \in DOMAIN alloc THEN alloc[t] ELSE Zero

\* ------------------------------------------------------------------------
\* services/rebalance.ts: calculateRebalance, the per-asset trade
\* ------------------------------------------------------------------------
\* mutant: a sellable overweight asset is sold whole
InitialTradeAmount_SellsHolding(asset, sell) ==
    IF RIsNeg(asset.difference)
    THEN IF canSellAsset(asset, sell) THEN RNeg(asset.currentValue) ELSE Zero
    ELSE Zero

\* tradeAmount before the buy allocation
InitialTradeAmount(asset, sell) ==
    IF RIsNeg(asset.difference)
    THEN IF canSellAsset(asset, sell) THEN RNeg(RAbs(asset.difference)) ELSE Zero
    ELSE Zero

\* mutant: the quotient is rounded up to the next whole share
InitialTradeQuantity_OneMore(tradeAmount, price) ==
    IF tradeAmount # Zero /\ RIsPos(price)
    THEN RFloor(RDiv(RAbs(tradeAmount), price)) + 1
    ELSE 0

\* Math.floor(Math.abs(tradeAmount) / price), guarded
InitialTradeQuantity(tradeAmount, price) ==
    IF tradeAmount # Zero /\ RIsPos(price)
    THEN RFloor(RDiv(RAbs(tradeAmount), price))
    ELSE 0

\* mutant: the quantity of a sell keeps its positive sign
SignedQuantity_Unsigned(difference, quantity) == quantity

\* asset.difference < 0 ? -tradeQuantity : tradeQuantity
SignedQuantity(difference, quantity) ==
    IF RIsNeg(difference) THEN -quantity ELSE quantity

AssetTradeOf(asset, pr, sell) ==
    LET price == PriceOf(pr, asset.ticker)
        tradeAmount == InitialTradeAmount(asset, sell)
        tradeQuantity == InitialTradeQuantity(tradeAmount, price)
    IN  [ticker |-> asset.ticker,
         tradeAmount |-> tradeAmount,
         tradeQuantity |-> SignedQuantity(asset.difference, tradeQuantity),
         currentValue |-> asset.currentValue,
         targetValue |-> asset.targetValue,
         targetWeight |-> asset.targetWeight,
         difference |-> asset.difference,
         priority |-> asset.priority,
         price |-> price]

\* the update of one trade with the buy allocations
MergeBuy(trade, alloc) ==
    IF RIsPos(trade.difference)
    THEN LET allocatedBuy == AllocationOf(alloc, trade.ticker)
         IN  [trade EXCEPT
                !.tradeAmount = allocatedBuy,
                !.tradeQuantity = IF RIsPos(trade.price)
                                  THEN RFloor(RDiv(allocatedBuy, trade.price))
                                  ELSE 0]
    ELSE trade

SumBuys(trades) ==
    RSum(MapSeq(trades, LAMBDA t :
            IF RIsPos(t.tradeAmount) THEN t.tradeAmount ELSE Zero))

\* mutant: the sells are summed with their negative sign
SumSells_NoAbs(trades) ==
    RSum(MapSeq(trades, LAMBDA t :
            IF RIsNeg(t.tradeAmount) THEN t.tradeAmount ELSE Zero))

SumSells(trades) ==
    RSum(MapSeq(trades, LAMBDA t :
            IF RIsNeg(t.tradeAmount) THEN RAbs(t.tradeAmount) ELSE Zero))

\* mutant: the loop never takes its convergence break
Converged_Never(total, previous) == FALSE

\* mutant: the change is compared without Math.abs
Converged_NoAbs(total, previous) ==
    RLt(RSub(total, previous), Rat(1, ToleranceInverse))

\* Math.abs(referenceTotal - previousReferenceTotal) < 0.01
Converged(total, previous) ==
    RLt(RAbs(RSub(total, previous)), Rat(1, ToleranceInverse))

\* ------------------------------------------------------------------------
\* State
\* ------------------------------------------------------------------------
VARIABLES
    assets,                 \* input: the asset list
    prices,                 \* input: ticker -> price
    availableCash,          \* input
    allowSell,              \* input
    targetWeights,          \* ticker -> weight, from calculateTargetWeights
    pc,                     \* position in the caller and in calculateRebalance
    totalCurrentValue,
    referenceTotal,
    previousReferenceTotal,
    allowedSellProceeds,
    assetStates,
    iteration,              \* loop variable of the reference-total loop
    buyBudget,
    underweightAssets,
    assetTrades,
    shareAllocations,       \* allocateBuyBudget: ticker -> shares
    remainingBudget,        \* allocateBuyBudget
    buyIteration,           \* allocateBuyBudget: loop variable
    buyAllocations,         \* the map allocateBuyBudget returns
    totalBuys,
    totalSells,
    results,                \* fetchAllPrices: the promise of each request
    completed               \* fetchAllPrices: the requests in the order they ended

inputVars == <<assets, prices, availableCash, allowSell>>
solverVars == <<totalCurrentValue, referenceTotal, previousReferenceTotal,
                allowedSellProceeds, assetStates, iteration>>
tradeVars == <<buyBudget, underweightAssets, assetTrades>>
buyVars == <<shareAllocations, remainingBudget, buyIteration, buyAllocations>>
totalVars == <<totalBuys, totalSells>>
fetchVars == <<results, completed>>
vars == <<inputVars, targetWeights, pc, solverVars, tradeVars, buyVars, totalVars,
          fetchVars>>

EmptyMap == [t \in {} |-> 0]

Init ==
    /\ assets \in AssetLists
    /\ prices \in PriceMaps(assets)
    /\ availableCash \in {Num(c) : c \in 0..MaxCash}
    /\ allowSell \in BOOLEAN
    /\ targetWeights = EmptyMap
    /\ pc = "weights"
    /\ totalCurrentValue = Zero
    /\ referenceTotal = Zero
    /\ previousReferenceTotal = Zero
    /\ allowedSellProceeds = Zero
    /\ assetStates = <<>>
    /\ iteration = 0
    /\ buyBudget = Zero
    /\ underweightAssets = <<>>
    /\ assetTrades = <<>>
    /\ shareAllocations = EmptyMap
    /\ remainingBudget = Zero
    /\ buyIteration = 0
    /\ buyAllocations = EmptyMap
    /\ totalBuys = Zero
    /\ totalSells = Zero
    /\ results = <<>>
    /\ completed = <<>>

\* ------------------------------------------------------------------------
\* Actions
\* ------------------------------------------------------------------------
\* App.tsx: const targetWeights = calculateTargetWeights(assets)
CalculateTargetWeights ==
    /\ pc = "weights"
    /\ targetWeights' = calculateTargetWeights(assets)
    /\ pc' = "start"
    /\ UNCHANGED <<fetchVars, inputVars, solverVars, tradeVars, buyVars, totalVars>>

\* mutant: the missing prices are written into the caller's price mapping
StartRebalance_FillsPrices ==
    /\ pc = "start"
    /\ prices' = [t \in TickersOf(assets) |->
                    IF t \in DOMAIN prices THEN prices[t] ELSE 0]
    /\ LET current == RSum(MapSeq(assets, LAMBDA a :
                          RMul(Num(a.quantity), PriceOf(prices, a.ticker))))
       IN  /\ totalCurrentValue' = current
           /\ referenceTotal' = RAdd(current, availableCash)
    /\ previousReferenceTotal' = Zero
    /\ allowedSellProceeds' = Zero
    /\ assetStates' = <<>>
    /\ iteration' = 0
    /\ pc' = "solve"
    /\ UNCHANGED <<fetchVars, assets, availableCash, allowSell, targetWeights, tradeVars,
                   buyVars, totalVars>>

\* calculateRebalance, STEP 1 and the initialisation of STEP 2
StartRebalance ==
    /\ pc = "start"
    /\ LET current == RSum(MapSeq(assets, LAMBDA a :
                          RMul(Num(a.quantity), PriceOf(prices, a.ticker))))
       IN  /\ totalCurrentValue' = current
           /\ referenceTotal' = RAdd(current, availableCash)
    /\ previousReferenceTotal' = Zero
    /\ allowedSellProceeds' = Zero
    /\ assetStates' = <<>>
    /\ iteration' = 0
    /\ pc' = "solve"
    /\ UNCHANGED <<fetchVars, inputVars, targetWeights, tradeVars, buyVars, totalVars>>

\* one round of the reference-total loop
SolverRound ==
    /\ pc = "solve"
    /\ iteration < SolverMaxIterations
    /\ LET states == calculateAssetStates(assets, prices, targetWeights, referenceTotal)
           proceeds == calculateAllowedSellProceeds(states, allowSell)
           next == RAdd(RAdd(totalCurrentValue, availableCash), proceeds)
       IN  /\ assetStates' = states
           /\ allowedSellProceeds' = proceeds
           /\ previousReferenceTotal' = referenceTotal
           /\ referenceTotal' = next
           /\ IF Converged(next, referenceTotal)
              THEN /\ iteration' = iteration
                   /\ pc' = "trades"
              ELSE /\ iteration' = iteration + 1
                   /\ pc' = IF iteration + 1 < SolverMaxIterations
                            THEN "solve" ELSE "trades"
    /\ UNCHANGED <<fetchVars, inputVars, targetWeights, totalCurrentValue, tradeVars,
                   buyVars, totalVars>>

\* mutant: the trades are built from states against the previous total
DetermineTrades_StaleStates ==
    /\ pc = "trades"
    /\ LET states == calculateAssetStates(assets, prices, targetWeights,
                                          previousReferenceTotal)
       IN  /\ assetStates' = states
           /\ underweightAssets' = SelectSeq(states, LAMBDA a : RIsPos(a.difference))
           /\ assetTrades' = MapSeq(states, LAMBDA a : AssetTradeOf(a, prices, allowSell))
    /\ buyBudget' = calculateBuyBudget(availableCash, allowedSellProceeds)
    /\ pc' = "allocate"
    /\ UNCHANGED <<fetchVars, inputVars, targetWeights, totalCurrentValue, referenceTotal,
                   previousReferenceTotal, allowedSellProceeds, iteration,
                   buyVars, totalVars>>

\* final asset states, STEP 7 and STEP 8
DetermineTrades ==
    /\ pc = "trades"
    /\ LET states == calculateAssetStates(assets, prices, targetWeights, referenceTotal)
       IN  /\ assetStates' = states
           /\ underweightAssets' = SelectSeq(states, LAMBDA a : RIsPos(a.difference))
           /\ assetTrades' = MapSeq(states, LAMBDA a : AssetTradeOf(a, prices, allowSell))
    /\ buyBudget' = calculateBuyBudget(availableCash, allowedSellProceeds)
    /\ pc' = "allocate"
    /\ UNCHANGED <<fetchVars, inputVars, targetWeights, totalCurrentValue, referenceTotal,
                   previousReferenceTotal, allowedSellProceeds, iteration,
                   buyVars, totalVars>>

\* allocateBuyBudget up to its loop
StartAllocation ==
    /\ pc = "allocate"
    /\ buyIteration' = 0
    /\ IF Len(underweightAssets) = 0 \/ RLe(buyBudget, Zero)
       THEN /\ buyAllocations' = EmptyMap
            /\ pc' = "merge"
            /\ UNCHANGED <<shareAllocations, remainingBudget>>
       ELSE /\ shareAllocations' =
                [t \in {underweightAssets[i].ticker : i \in 1..Len(underweightAssets)} |-> 0]
            /\ remainingBudget' = buyBudget
            /\ pc' = "buy"
            /\ UNCHANGED buyAllocations
    /\ UNCHANGED <<fetchVars, inputVars, targetWeights, solverVars, tradeVars, totalVars>>

\* one round of the buy loop
BuyRound ==
    /\ pc = "buy"
    /\ buyIteration < AuctionMaxIterations
    /\ LET needing == AssetsNeedingMore(underweightAssets, prices,
                                        shareAllocations, remainingBudget)
       IN  IF Len(needing) = 0
           THEN /\ pc' = "convert"
                /\ UNCHANGED <<shareAllocations, remainingBudget, buyIteration>>
           ELSE LET assetScores == MapSeq(needing, LAMBDA a :
                                       AssetScore(a, needing, prices))
                    winner == FirstOfSorted(assetScores)
                IN  IF RLe(winner.price, remainingBudget)
                    THEN /\ shareAllocations' =
                              [shareAllocations EXCEPT ![winner.ticker] = @ + 1]
                         /\ remainingBudget' = BudgetAfterBuy(remainingBudget, winner.price)
                         /\ buyIteration' = buyIteration + 1
                         /\ pc' = IF buyIteration + 1 < AuctionMaxIterations
                                  THEN "buy" ELSE "convert"
                    ELSE /\ pc' = "convert"
                         /\ UNCHANGED <<shareAllocations, remainingBudget, buyIteration>>
    /\ UNCHANGED <<fetchVars, inputVars, targetWeights, solverVars, tradeVars,
                   buyAllocations, totalVars>>

\* allocateBuyBudget after its loop
FinishAllocation ==
    /\ pc = "convert"
    /\ buyAllocations' = ConvertAllocations(shareAllocations, prices)
    /\ pc' = "merge"
    /\ UNCHANGED <<fetchVars, inputVars, targetWeights, solverVars, tradeVars,
                   shareAllocations, remainingBudget, buyIteration, totalVars>>

\* the update of the trades with the buy allocations, STEP 10 and the return
MergeAndTotal ==
    /\ pc = "merge"
    /\ LET merged == MapSeq(assetTrades, LAMBDA t : MergeBuy(t, buyAllocations))
       IN  /\ assetTrades' = merged
           /\ totalBuys' = SumBuys(merged)
           /\ totalSells' = SumSells(merged)
    /\ pc' = "done"
    /\ UNCHANGED <<fetchVars, inputVars, targetWeights, solverVars, buyBudget,
                   underweightAssets, buyVars>>

Next ==
    \/ CalculateTargetWeights
    \/ StartRebalance
    \/ SolverRound
    \/ DetermineTrades
    \/ StartAllocation
    \/ BuyRound
    \/ FinishAllocation
    \/ MergeAndTotal

Spec == Init /\ [][Next]_vars

\* where the computation stands: every step of Next changes it
position == <<pc, iteration, buyIteration>>

\* some step that moves the position on, possible until the plan is returned
Advance ==
    /\ pc # "done"
    /\ pc' \in {"start", "solve", "trades", "allocate", "buy", "convert",
                "merge", "done"}
    /\ iteration' \in {iteration, iteration + 1}
    /\ buyIteration' \in {buyIteration, buyIteration + 1}

\* the computation is synchronous straight-line code: it is never suspended
\* while a step remains. A step of Next is possible exactly while
\* pc # "done" and every step of Next changes the position, so this is weak
\* fairness of Next, stated over the position.
FairSpec == Spec /\ WF_position(Advance)

\* nothing has been computed yet
NothingComputed ==
    /\ targetWeights = EmptyMap
    /\ pc = "weights"
    /\ totalCurrentValue = Zero
    /\ referenceTotal = Zero
    /\ previousReferenceTotal = Zero
    /\ allowedSellProceeds = Zero
    /\ assetStates = <<>>
    /\ iteration = 0
    /\ buyBudget = Zero
    /\ underweightAssets = <<>>
    /\ assetTrades = <<>>
    /\ shareAllocations = EmptyMap
    /\ remainingBudget = Zero
    /\ buyIteration = 0
    /\ buyAllocations = EmptyMap
    /\ totalBuys = Zero
    /\ totalSells = Zero
    /\ results = <<>>
    /\ completed = <<>>

\* a portfolio of one asset that holds nothing, with little or much cash
SoleAssetInit ==
    /\ \E priority \in 0..MaxPriority :
          assets = <<[ticker |-> Tickers[1], priority |-> priority, quantity |-> 0]>>
    /\ prices \in PriceMaps(assets) \cup {[t \in {Tickers[1]} |-> SolePrice]}
    /\ availableCash \in {Num(c) : c \in (0..MaxCash) \cup {SoleCash, LargeCash}}
    /\ allowSell \in BOOLEAN
    /\ NothingComputed

SoleAssetSpec == SoleAssetInit /\ [][Next]_vars

\* the portfolios of Spec and of SoleAssetSpec together: buy loops that end
\* by themselves and buy loops that run into their cap
AnyPortfolioSpec == (Init \/ SoleAssetInit) /\ [][Next]_vars

\* calculateRebalance called with target weights of the caller's own, each
\* in [0, 1], whatever their sum; the priorities, which then enter the buy
\* loop only, are the lowest or the highest
GivenWeights == {Zero, Rat(1, 2), Num(1)}

GivenWeightsInit ==
    /\ assets \in {as \in AssetLists :
                      \A i \in 1..Len(as) : as[i].priority \in {0, MaxPriority}}
    /\ prices \in PriceMaps(assets)
    /\ availableCash \in {Num(c) : c \in 0..MaxCash}
    /\ allowSell \in BOOLEAN
    /\ targetWeights \in [TickersOf(assets) -> GivenWeights]
    /\ pc = "start"
    /\ totalCurrentValue = Zero
    /\ referenceTotal = Zero
    /\ previousReferenceTotal = Zero
    /\ allowedSellProceeds = Zero
    /\ assetStates = <<>>
    /\ iteration = 0
    /\ buyBudget = Zero
    /\ underweightAssets = <<>>
    /\ assetTrades = <<>>
    /\ shareAllocations = EmptyMap
    /\ remainingBudget = Zero
    /\ buyIteration = 0
    /\ buyAllocations = EmptyMap
    /\ totalBuys = Zero
    /\ totalSells = Zero
    /\ results = <<>>
    /\ completed = <<>>

GivenWeightsNext ==
    \/ StartRebalance
    \/ SolverRound
    \/ DetermineTrades
    \/ StartAllocation
    \/ BuyRound
    \/ FinishAllocation
    \/ MergeAndTotal

GivenWeightsSpec == GivenWeightsInit /\ [][GivenWeightsNext]_vars

\* ------------------------------------------------------------------------
\* The end of allocateBuyBudget and of calculateRebalance in binary64: the
\* buy loop has left its share counts for one underweight asset
\* ------------------------------------------------------------------------
\* shares * price per ticker
ConvertAllocations64(shares, pr) ==
    [t \in DOMAIN shares |-> DMul(DFromInt(shares[t]), pr[t])]

\* the update of one underweight trade with the buy allocations
MergeBuy64(trade, alloc) ==
    LET allocatedBuy == IF trade.ticker \in DOMAIN alloc
                        THEN alloc[trade.ticker] ELSE DZero
    IN  [trade EXCEPT
            !.tradeAmount = allocatedBuy,
            !.tradeQuantity = IF trade.price # DZero
                              THEN DFloor(DDiv(allocatedBuy, trade.price))
                              ELSE 0]

\* one asset at a price of whole cents, its placeholder trade, and the
\* shares the buy loop gave it
ConversionInit ==
    /\ assets = <<[ticker |-> Tickers[1], priority |-> 1, quantity |-> 0]>>
    /\ \E cents \in 1..MaxPriceCents :
          prices = [t \in {Tickers[1]} |-> DFromCents(cents)]
    /\ availableCash = Zero
    /\ allowSell = FALSE
    /\ shareAllocations \in [{Tickers[1]} -> 0..MaxShares]
    /\ assetTrades = <<[ticker |-> Tickers[1],
                        tradeAmount |-> DZero,
                        tradeQuantity |-> 0,
                        price |-> prices[Tickers[1]]]>>
    /\ pc = "convert"
    /\ targetWeights = EmptyMap
    /\ totalCurrentValue = Zero
    /\ referenceTotal = Zero
    /\ previousReferenceTotal = Zero
    /\ allowedSellProceeds = Zero
    /\ assetStates = <<>>
    /\ iteration = 0
    /\ buyBudget = Zero
    /\ underweightAssets = <<>>
    /\ remainingBudget = Zero
    /\ buyIteration = 0
    /\ buyAllocations = EmptyMap
    /\ totalBuys = DZero
    /\ totalSells = DZero
    /\ results = <<>>
    /\ completed = <<>>

\* allocateBuyBudget after its loop
FinishAllocation64 ==
    /\ pc = "convert"
    /\ buyAllocations' = ConvertAllocations64(shareAllocations, prices)
    /\ pc' = "merge"
    /\ UNCHANGED <<fetchVars, inputVars, targetWeights, solverVars, tradeVars,
                   shareAllocations, remainingBudget, buyIteration, totalVars>>

\* the update of the trades with the buy allocations, STEP 10 and the
\* return; the totals of a single trade are 0 + tradeAmount and 0
MergeAndTotal64 ==
    /\ pc = "merge"
    /\ LET merged == MapSeq(assetTrades, LAMBDA t : MergeBuy64(t, buyAllocations))
       IN  /\ assetTrades' = merged
           /\ totalBuys' = merged[1].tradeAmount
    /\ totalSells' = DZero
    /\ pc' = "done"
    /\ UNCHANGED <<fetchVars, inputVars, targetWeights, solverVars, buyBudget,
                   underweightAssets, buyVars>>

ConversionNext ==
    \/ FinishAllocation64
    \/ MergeAndTotal64

ConversionSpec == ConversionInit /\ [][ConversionNext]_vars

\* ------------------------------------------------------------------------
\* calculateRebalance in binary64 for a holding that is too large: the first
\* asset is held at a price of whole cents, the second is wanted but its
\* price could not be fetched, so that nothing can be bought
\* ------------------------------------------------------------------------
\* prices[ticker] || 0
PriceOf64(pr, t) == IF t \in DOMAIN pr THEN pr[t] ELSE DZero

\* reduce((sum, x) => sum + x, 0) over the first k numbers of s
RECURSIVE DSum(_, _)
DSum(s, k) == IF k = 0 THEN DZero ELSE DAdd(DSum(s, k - 1), s[k])

calculateTargetWeights64(as) ==
    LET totalPriority == DSum(MapSeq(as, LAMBDA a : DFromInt(a.priority)), Len(as))
    IN  IF totalPriority = DZero
        THEN [t \in TickersOf(as) |-> DDiv(DFromInt(1), DFromInt(Len(as)))]
        ELSE [t \in TickersOf(as) |->
                LET a == CHOOSE x \in {as[i] : i \in 1..Len(as)} : x.ticker = t
                IN  DDiv(DFromInt(a.priority), totalPriority)]

AssetStateOf64(asset, pr, tw, total) ==
    LET price == PriceOf64(pr, asset.ticker)
        currentValue == DMul(DFromInt(asset.quantity), price)
        targetWeight == IF asset.ticker \in DOMAIN tw THEN tw[asset.ticker] ELSE DZero
        targetValue == DMul(targetWeight, total)
    IN  [ticker |-> asset.ticker,
         currentValue |-> currentValue,
         targetValue |-> targetValue,
         targetWeight |-> targetWeight,
         difference |-> DSub(targetValue, currentValue),
         priority |-> asset.priority]

calculateAssetStates64(as, pr, tw, total) ==
    MapSeq(as, LAMBDA a : AssetStateOf64(a, pr, tw, total))

calculateAllowedSellProceeds64(states, sell) ==
    IF ~sell THEN DZero
    ELSE DSum(MapSeq(states, LAMBDA a :
                  IF DIsNeg(a.difference) THEN a.difference.abs ELSE DZero),
              Len(states))

\* Math.abs(referenceTotal - previousReferenceTotal) < 0.01
Converged64(total, previous) == DLess(DSub(total, previous).abs, DFromCents(1))

\* Math.floor(Math.abs(tradeAmount) / price), guarded
SaleQuantity64(tradeAmount, price) ==
    IF tradeAmount.abs.m # <<>> /\ price.m # <<>>
    THEN DFloor(DDiv(tradeAmount.abs, price))
    ELSE 0

AssetTradeOf64(asset, pr, sell) ==
    LET price == PriceOf64(pr, asset.ticker)
        tradeAmount == IF DIsNeg(asset.difference) /\ sell
                       THEN DSigned(TRUE, asset.difference.abs)
                       ELSE DSigned(FALSE, DZero)
        tradeQuantity == SaleQuantity64(tradeAmount, price)
    IN  [ticker |-> asset.ticker,
         tradeAmount |-> tradeAmount,
         tradeQuantity |-> IF DIsNeg(asset.difference)
                           THEN -tradeQuantity ELSE tradeQuantity,
         currentValue |-> asset.currentValue,
         targetValue |-> asset.targetValue,
         targetWeight |-> asset.targetWeight,
         difference |-> asset.difference,
         priority |-> asset.priority,
         price |-> price]

\* the update of one trade with buy allocations that are all 0
MergeNoBuy64(trade) ==
    IF DIsPos(trade.difference)
    THEN [trade EXCEPT
            !.tradeAmount = DSigned(FALSE, DZero),
            !.tradeQuantity = IF trade.price.m # <<>>
                              THEN DFloor(DDiv(DZero, trade.price))
                              ELSE 0]
    ELSE trade

SaleInit ==
    /\ \E priority \in 0..1, quantity \in 0..MaxShares, wanted \in 1..MaxPriority :
          assets = <<[ticker |-> Tickers[1], priority |-> priority, quantity |-> quantity],
                     [ticker |-> Tickers[2], priority |-> wanted, quantity |-> 0]>>
    /\ \E cents \in 1..MaxPriceCents :
          prices = [t \in {Tickers[1], Tickers[2]} |->
                      IF t = Tickers[1] THEN DFromCents(cents) ELSE DZero]
    /\ availableCash = DZero
    /\ allowSell \in BOOLEAN
    /\ targetWeights = EmptyMap
    /\ pc = "weights"
    /\ totalCurrentValue = DZero
    /\ referenceTotal = DZero
    /\ previousReferenceTotal = DZero
    /\ allowedSellProceeds = DZero
    /\ assetStates = <<>>
    /\ iteration = 0
    /\ buyBudget = DZero
    /\ underweightAssets = <<>>
    /\ assetTrades = <<>>
    /\ shareAllocations = EmptyMap
    /\ remainingBudget = DZero
    /\ buyIteration = 0
    /\ buyAllocations = EmptyMap
    /\ totalBuys = DZero
    /\ totalSells = DZero
    /\ results = <<>>
    /\ completed = <<>>

\* App.tsx: const targetWeights = calculateTargetWeights(assets)
CalculateTargetWeights64 ==
    /\ pc = "weights"
    /\ targetWeights' = calculateTargetWeights64(assets)
    /\ pc' = "start"
    /\ UNCHANGED <<fetchVars, inputVars, solverVars, tradeVars, buyVars, totalVars>>

\* calculateRebalance, STEP 1 and the initialisation of STEP 2
StartRebalance64 ==
    /\ pc = "start"
    /\ LET current == DSum(MapSeq(assets, LAMBDA a :
                          DMul(DFromInt(a.quantity), PriceOf64(prices, a.ticker))),
                          Len(assets))
       IN  /\ totalCurrentValue' = current
           /\ referenceTotal' = DAdd(current, availableCash)
    /\ previousReferenceTotal' = DZero
    /\ allowedSellProceeds' = DZero
    /\ assetStates' = <<>>
    /\ iteration' = 0
    /\ pc' = "solve"
    /\ UNCHANGED <<fetchVars, inputVars, targetWeights, tradeVars, buyVars, totalVars>>

\* one round of the reference-total loop
SolverRound64 ==
    /\ pc = "solve"
    /\ iteration < SolverMaxIterations
    /\ LET states == calculateAssetStates64(assets, prices, targetWeights, referenceTotal)
           proceeds == calculateAllowedSellProceeds64(states, allowSell)
           next == DAdd(DAdd(totalCurrentValue, availableCash), proceeds)
       IN  /\ assetStates' = states
           /\ allowedSellProceeds' = proceeds
           /\ previousReferenceTotal' = referenceTotal
           /\ referenceTotal' = next
           /\ IF Converged64(next, referenceTotal)
              THEN /\ iteration' = iteration
                   /\ pc' = "trades"
              ELSE /\ iteration' = iteration + 1
                   /\ pc' = IF iteration + 1 < SolverMaxIterations
                            THEN "solve" ELSE "trades"
    /\ UNCHANGED <<fetchVars, inputVars, targetWeights, totalCurrentValue, tradeVars,
                   buyVars, totalVars>>

\* final asset states, STEP 7 and STEP 8
DetermineTrades64 ==
    /\ pc = "trades"
    /\ LET states == calculateAssetStates64(assets, prices, targetWeights, referenceTotal)
       IN  /\ assetStates' = states
           /\ underweightAssets' = SelectSeq(states, LAMBDA a : DIsPos(a.difference))
           /\ assetTrades' = MapSeq(states, LAMBDA a : AssetTradeOf64(a, prices, allowSell))
    /\ buyBudget' = DAdd(availableCash, allowedSellProceeds)
    /\ pc' = "allocate"
    /\ UNCHANGED <<fetchVars, inputVars, targetWeights, totalCurrentValue, referenceTotal,
                   previousReferenceTotal, allowedSellProceeds, iteration,
                   buyVars, totalVars>>

\* allocateBuyBudget when no underweight asset has a price: the early return,
\* or a loop that breaks in its first round and share counts of 0
AllocateNothing64 ==
    /\ pc = "allocate"
    /\ \A i \in 1..Len(underweightAssets) :
          PriceOf64(prices, underweightAssets[i].ticker) = DZero
    /\ buyIteration' = 0
    /\ IF Len(underweightAssets) = 0 \/ ~DLess(DZero, buyBudget)
       THEN /\ buyAllocations' = EmptyMap
            /\ UNCHANGED <<shareAllocations, remainingBudget>>
       ELSE /\ shareAllocations' =
                [t \in {underweightAssets[i].ticker : i \in 1..Len(underweightAssets)} |-> 0]
            /\ remainingBudget' = buyBudget
            /\ buyAllocations' =
                [t \in {underweightAssets[i].ticker : i \in 1..Len(underweightAssets)} |->
                    DMul(DFromInt(0), PriceOf64(prices, t))]
    /\ pc' = "merge"
    /\ UNCHANGED <<fetchVars, inputVars, targetWeights, solverVars, tradeVars, totalVars>>

\* the update of the trades with the buy allocations, STEP 10 and the return
MergeAndTotalSale64 ==
    /\ pc = "merge"
    /\ LET merged == MapSeq(assetTrades, LAMBDA t : MergeNoBuy64(t))
       IN  /\ assetTrades' = merged
           /\ totalBuys' = DSum(MapSeq(merged, LAMBDA t :
                                IF DIsPos(t.tradeAmount) THEN t.tradeAmount.abs ELSE DZero),
                                Len(merged))
           /\ totalSells' = DSum(MapSeq(merged, LAMBDA t :
                                 IF DIsNeg(t.tradeAmount) THEN t.tradeAmount.abs ELSE DZero),
                                 Len(merged))
    /\ pc' = "done"
    /\ UNCHANGED <<fetchVars, inputVars, targetWeights, solverVars, buyBudget,
                   underweightAssets, buyVars>>

SaleNext ==
    \/ CalculateTargetWeights64
    \/ StartRebalance64
    \/ SolverRound64
    \/ DetermineTrades64
    \/ AllocateNothing64
    \/ MergeAndTotalSale64

SaleSpec == SaleInit /\ [][SaleNext]_vars

\* ------------------------------------------------------------------------
\* utils/fetchPrices.ts: fetchAllPrices, as App.tsx calls it on the tickers
\* of the configured assets, without onProgress.  The requests are in
\* flight together and complete in any order; the types mapping is left
\* out.
\* ------------------------------------------------------------------------
\* what a request comes to: an exception of fetch or of response.json(), or
\* a response whose regularMarketPrice is price (0: missing)
Responses ==
    [failed : {TRUE}, price : {0}] \cup [failed : {FALSE}, price : 0..MaxPrice]

Pending == [state |-> "pending"]

\* mutant: without the try/catch an exception rejects the promise
fetchPrice_NoCatch(ticker, response) ==
    IF response.failed
    THEN [state |-> "rejected"]
    ELSE [state |-> "fulfilled",
          value |-> [ticker |-> ticker, price |-> response.price,
                     success |-> response.price > 0],
          response |-> response]

\* the promise of fetchPrice once its request has come to response
fetchPrice(ticker, response) ==
    IF response.failed
    THEN [state |-> "fulfilled",
          value |-> [ticker |-> ticker, price |-> 0, success |-> FALSE],
          response |-> response]
    ELSE [state |-> "fulfilled",
          value |-> [ticker |-> ticker, price |-> response.price,
                     success |-> response.price > 0],
          response |-> response]

\* for (const {ticker, price} of results) prices[ticker] = price, over the
\* first k results
RECURSIVE CollectPrices(_, _)
CollectPrices(res, k) ==
    IF k = 0 THEN EmptyMap
    ELSE LET before == CollectPrices(res, k - 1)
             result == res[k].value
         IN  [t \in DOMAIN before \cup {result.ticker} |->
                 IF t = result.ticker THEN result.price ELSE before[t]]

\* the configured assets, tickers possibly repeated, and one pending request
\* per asset
FetchInit ==
    /\ \E n \in 0..MaxFetches :
          /\ assets \in [1..n -> [ticker : {Tickers[i] : i \in 1..Len(Tickers)},
                                  priority : {1}, quantity : {0}]]
          /\ results = [i \in 1..n |-> Pending]
    /\ completed = <<>>
    /\ prices = EmptyMap
    /\ pc = "fetching"
    /\ availableCash = Zero
    /\ allowSell = FALSE
    /\ targetWeights = EmptyMap
    /\ totalCurrentValue = Zero
    /\ referenceTotal = Zero
    /\ previousReferenceTotal = Zero
    /\ allowedSellProceeds = Zero
    /\ assetStates = <<>>
    /\ iteration = 0
    /\ buyBudget = Zero
    /\ underweightAssets = <<>>
    /\ assetTrades = <<>>
    /\ shareAllocations = EmptyMap
    /\ remainingBudget = Zero
    /\ buyIteration = 0
    /\ buyAllocations = EmptyMap
    /\ totalBuys = Zero
    /\ totalSells = Zero

\* one request comes to its end and its fetchPrice promise settles
CompleteFetch ==
    /\ pc = "fetching"
    /\ \E i \in DOMAIN results, response \in Responses :
          /\ results[i].state = "pending"
          /\ results' = [results EXCEPT ![i] = fetchPrice(assets[i].ticker, response)]
          /\ completed' = Append(completed, i)
    /\ UNCHANGED <<assets, prices, availableCash, allowSell, targetWeights, pc,
                   solverVars, tradeVars, buyVars, totalVars>>

\* Promise.all settles: rejected with the first rejection, fulfilled when
\* every promise is; then the loop over the results and the return
SettleAll ==
    /\ pc = "fetching"
    /\ \/ \E i \in DOMAIN results : results[i].state = "rejected"
       \/ \A i \in DOMAIN results : results[i].state = "fulfilled"
    /\ IF \E i \in DOMAIN results : results[i].state = "rejected"
       THEN /\ pc' = "failed"
            /\ UNCHANGED prices
       ELSE /\ pc' = "fetched"
            /\ prices' = CollectPrices(results, Len(results))
    /\ UNCHANGED <<fetchVars, assets, availableCash, allowSell, targetWeights,
                   solverVars, tradeVars, buyVars, totalVars>>

FetchNext ==
    \/ CompleteFetch
    \/ SettleAll

FetchSpec == FetchInit /\ [][FetchNext]_vars

\* the TradePlan calculateRebalance returns
Returned == pc = "done"

TradePlan ==
    [assets |-> assetTrades,
     totalCurrentValue |-> totalCurrentValue,
     referenceTotal |-> referenceTotal,
     buyBudget |-> buyBudget,
     totalBuys |-> totalBuys,
     totalSells |-> totalSells]

\* ------------------------------------------------------------------------
\* Properties
\* ------------------------------------------------------------------------
One == Num(1)
Tolerance == Rat(1, ToleranceInverse)
TradeIndex == 1..Len(assetTrades)
InputPrice(i) == PriceOf(prices, assets[i].ticker)
IntPriority(i) == assets[i].priority
IntTotalPriority ==
    LET RECURSIVE Upto(_)
        Upto(k) == IF k = 0 THEN 0 ELSE Upto(k - 1) + assets[k].priority
    IN  Upto(Len(assets))

C2_NoSellWhenLocked ==
    (Returned /\ ~allowSell) =>
        /\ \A i \in TradeIndex :
              /\ ~RIsNeg(assetTrades[i].tradeAmount)
              /\ RIsNeg(assetTrades[i].difference) => assetTrades[i].tradeAmount = Zero
        /\ totalSells = Zero

\* a returned plan with selling forbidden and an overweight asset
C2_Witness ==
    /\ Returned
    /\ ~allowSell
    /\ \E i \in TradeIndex : RIsNeg(assetTrades[i].difference)

\* C3: with allowSell true the returned buyBudget is availableCash plus the
\* sells the plan contains: buyBudget = availableCash + totalSells.
C3_BudgetIsCashPlusSells ==
    (Returned /\ allowSell) => buyBudget = RAdd(availableCash, totalSells)

\* C4: the returned referenceTotal T is self-consistent within the tolerance:
\* |T - (totalCurrentValue + availableCash + allowedSellProceeds(states
\* against T))| < 0.01.
C4_ReferenceTotalSelfConsistent ==
    Returned =>
        LET states == calculateAssetStates(assets, prices, targetWeights, referenceTotal)
            proceeds == calculateAllowedSellProceeds(states, allowSell)
            implied == RAdd(RAdd(totalCurrentValue, availableCash), proceeds)
        IN  RLt(RAbs(RSub(referenceTotal, implied)), Tolerance)

\* C5: in the returned plan tradeAmount and tradeQuantity of every trade
\* have matching sign: both >= 0 or both <= 0.
C5_MatchingSign ==
    Returned =>
        \A i \in TradeIndex :
            \/ ~RIsNeg(assetTrades[i].tradeAmount) /\ assetTrades[i].tradeQuantity >= 0
            \/ ~RIsPos(assetTrades[i].tradeAmount) /\ assetTrades[i].tradeQuantity <= 0

\* a plan that sells whole shares of one asset and buys whole shares of another
C5_Witness ==
    /\ Returned
    /\ \E i \in TradeIndex :
          RIsNeg(assetTrades[i].tradeAmount) /\ assetTrades[i].tradeQuantity < 0
    /\ \E i \in TradeIndex :
          RIsPos(assetTrades[i].tradeAmount) /\ assetTrades[i].tradeQuantity > 0

\* C6: in the returned plan totalBuys is the sum of the positive tradeAmounts
\* and totalSells the sum of the absolute values of the negative ones, taken
\* over the final trades (after the buy allocation is merged in).
C6_TotalsReconcile ==
    Returned =>
        /\ totalBuys = RSum([i \in TradeIndex |->
                              IF assetTrades[i].tradeAmount.n > 0
                              THEN assetTrades[i].tradeAmount ELSE Zero])
        /\ totalSells = RSum([i \in TradeIndex |->
                              IF assetTrades[i].tradeAmount.n < 0
                              THEN RNeg(assetTrades[i].tradeAmount) ELSE Zero])

\* a plan with a buy and a sell, so both totals are positive
C6_Witness ==
    /\ Returned
    /\ RIsPos(totalBuys)
    /\ RIsPos(totalSells)
    /\ \E i \in TradeIndex : RIsPos(assetTrades[i].tradeAmount)

\* C7: calculateTargetWeights gives every ticker a weight in [0, 1], the
\* weights sum to 1, weight = priority / total priority when the total is
\* positive and 1 / N when it is 0.
C7_TargetWeights ==
    (pc # "weights") =>
        /\ DOMAIN targetWeights = TickersOf(assets)
        /\ \A i \in 1..Len(assets) :
              LET w == targetWeights[assets[i].ticker]
              IN  /\ w.d > 0 /\ 0 <= w.n /\ w.n <= w.d
                  /\ IF IntTotalPriority > 0
                     THEN w.n * IntTotalPriority = IntPriority(i) * w.d
                     ELSE w.n * Len(assets) = w.d
        /\ RSum([i \in 1..Len(assets) |-> targetWeights[assets[i].ticker]]) = One

\* weights of two assets with different positive priorities
C7_Witness ==
    /\ pc = "start"
    /\ Len(assets) = 2
    /\ IntPriority(1) > IntPriority(2)
    /\ IntPriority(2) > 0
    /\ RGt(targetWeights[assets[1].ticker], targetWeights[assets[2].ticker])

\* the price mapping has no entry for asset i, or the entry 0
Unpriced(i) ==
    \/ assets[i].ticker \notin DOMAIN prices
    \/ prices[assets[i].ticker] = 0

\* C9: an asset whose price is 0 or missing has tradeAmount 0 and
\* tradeQuantity 0 and adds nothing to totalCurrentValue.
C9_UnpricedNeverTraded ==
    Returned =>
        /\ \A i \in TradeIndex :
              Unpriced(i) =>
                  /\ assetTrades[i].tradeAmount = Zero
                  /\ assetTrades[i].tradeQuantity = 0
                  /\ assetTrades[i].currentValue = Zero
        /\ totalCurrentValue =
              RSum([i \in 1..Len(assets) |->
                      IF Unpriced(i) THEN Zero
                      ELSE Num(assets[i].quantity * prices[assets[i].ticker])])

\* a held, prioritised, underweight asset without a price entry next to an
\* asset that is bought
C9_Witness ==
    /\ Returned
    /\ \E i \in TradeIndex :
          /\ assets[i].ticker \notin DOMAIN prices
          /\ assets[i].quantity > 0
          /\ assets[i].priority > 0
          /\ RIsPos(assetTrades[i].difference)
    /\ RIsPos(totalBuys)

\* Scenario B: two assets of equal priority and positive prices, selling
\* forbidden, asset o overweight and asset u underweight
ScenarioB(o, u) ==
    /\ Returned
    /\ Len(assets) = 2
    /\ {o, u} = {1, 2}
    /\ IntPriority(1) = IntPriority(2)
    /\ RIsPos(InputPrice(1)) /\ RIsPos(InputPrice(2))
    /\ ~allowSell
    /\ RIsNeg(assetTrades[o].difference)
    /\ RIsPos(assetTrades[u].difference)

C12_SellsFullOverweight ==
    (Returned /\ allowSell) =>
        \A i \in TradeIndex :
            assetTrades[i].difference.n < 0 =>
                /\ assetTrades[i].tradeAmount = assetTrades[i].difference
                /\ assetTrades[i].tradeAmount =
                      RNeg(RSub(assetTrades[i].currentValue, assetTrades[i].targetValue))

\* an overweight asset is sold part of its holding while the other is bought
C12_Witness ==
    /\ Returned
    /\ allowSell
    /\ \E i \in TradeIndex :
          /\ assetTrades[i].difference.n < 0
          /\ RLt(RAbs(assetTrades[i].tradeAmount), assetTrades[i].currentValue)
    /\ \E i \in TradeIndex : RIsPos(assetTrades[i].tradeAmount)

\* the change of the reference total in the last round is below the tolerance
LastStepSmall ==
    LET step == RSub(referenceTotal, previousReferenceTotal)
    IN  RLt(IF step.n < 0 THEN RNeg(step) ELSE step, Tolerance)

LeftSolver == pc \notin {"weights", "start", "solve"}

\* C13: the solver leaves its loop either converged or after its 10th round,
\* and a plan is returned all the same; its referenceTotal is the value of
\* the last round run: totalCurrentValue + availableCash + the allowed sell
\* proceeds of the states against the previous total.
C13_CapReturnsLastTotal ==
    LeftSolver =>
        /\ LastStepSmall \/ iteration = SolverMaxIterations
        /\ referenceTotal =
              RAdd(RAdd(totalCurrentValue, availableCash),
                   calculateAllowedSellProceeds(
                       calculateAssetStates(assets, prices, targetWeights,
                                            previousReferenceTotal),
                       allowSell))
        /\ Returned => TradePlan.referenceTotal = referenceTotal

\* a plan returned after 10 rounds without convergence
C13_Witness ==
    /\ Returned
    /\ iteration = SolverMaxIterations
    /\ ~LastStepSmall

\* C14: the returned plan has exactly one trade per input asset, in input
\* order: the i-th trade carries the i-th asset's ticker.
C14_TradesInInputOrder ==
    Returned =>
        /\ Len(assetTrades) = Len(assets)
        /\ \A i \in 1..Len(assets) : assetTrades[i].ticker = assets[i].ticker

\* two underweight assets of which the buy loop served only the second
C14_Witness ==
    /\ Returned
    /\ Len(assets) = 2
    /\ RIsPos(assetTrades[1].difference)
    /\ assetTrades[1].tradeAmount = Zero
    /\ InputPrice(1).n > 0
    /\ RIsPos(assetTrades[2].tradeAmount)

\* C15: calculateTargetWeights and calculateRebalance leave the caller's
\* inputs as they were: no step changes assets, prices, availableCash or
\* allowSell, and no step of calculateRebalance changes targetWeights.
C15_InputsUnchanged ==
    [][/\ assets' = assets
       /\ prices' = prices
       /\ availableCash' = availableCash
       /\ allowSell' = allowSell
       /\ (pc # "weights") => (targetWeights' = targetWeights)]_vars

\* a returned plan for two assets of which one has no price entry
C15_Witness ==
    /\ Returned
    /\ Len(assets) = 2
    /\ DOMAIN prices # TickersOf(assets)
    /\ RIsPos(totalBuys)
    /\ DOMAIN targetWeights = TickersOf(assets)

\* C16: with allowSell false the allowed sell proceeds are 0 in every round,
\* the solver runs one round only, referenceTotal = totalCurrentValue +
\* availableCash and the returned buyBudget is availableCash.
C16_NoSellBudgetIsCash ==
    (~allowSell) =>
        /\ allowedSellProceeds = Zero
        /\ (pc = "solve") => (assetStates = <<>> /\ iteration = 0)
        /\ LeftSolver =>
              /\ iteration = 0
              /\ referenceTotal = RAdd(totalCurrentValue, availableCash)
        /\ Returned => buyBudget = availableCash

\* selling forbidden, an overweight asset, and cash that is spent
C16_Witness ==
    /\ Returned
    /\ ~allowSell
    /\ availableCash.n > 0
    /\ totalBuys = availableCash
    /\ \E i \in TradeIndex : assetTrades[i].difference.n < 0

\* the value the solver assigns from the total T
NextTotal(T) ==
    RAdd(RAdd(totalCurrentValue, availableCash),
         calculateAllowedSellProceeds(
             calculateAssetStates(assets, prices, targetWeights, T), allowSell))

\* C17: the solver starts from totalCurrentValue + availableCash, each round
\* assigns totalCurrentValue + availableCash + allowedSellProceeds(states
\* against T), it goes on only while the last change was not below 0.01 and
\* runs at most 10 rounds, the buy loop at most 10000, and every invocation
\* returns.
C17_BoundedAndTerminates ==
    /\ [](/\ iteration <= SolverMaxIterations
          /\ buyIteration <= AuctionMaxIterations
          /\ (pc = "solve" /\ assetStates = <<>>) =>
                referenceTotal = RAdd(totalCurrentValue, availableCash)
          /\ (pc = "solve" /\ assetStates # <<>>) =>
                (~LastStepSmall /\ iteration < SolverMaxIterations))
    /\ [][(pc = "solve") =>
             /\ referenceTotal' = NextTotal(referenceTotal)
             /\ previousReferenceTotal' = referenceTotal]_vars
    /\ <>Returned

\* a plan returned after the solver converged in a later round and the buy
\* loop ran several rounds
C17_Witness ==
    /\ Returned
    /\ iteration > 1
    /\ iteration < SolverMaxIterations
    /\ LastStepSmall
    /\ buyIteration > 1

\* C18: every returned trade reports the values recomputed against the
\* returned referenceTotal (targetValue = targetWeight x referenceTotal,
\* currentValue = quantity x price, difference = targetValue - currentValue)
\* and its direction follows that difference.
C18_ValuesAgainstReturnedTotal ==
    Returned =>
        \A i \in TradeIndex :
            LET t == assetTrades[i]
                w == WeightOf(targetWeights, assets[i].ticker)
            IN  /\ t.targetWeight = w
                /\ t.targetValue = RMul(w, referenceTotal)
                /\ t.currentValue = RMul(Num(assets[i].quantity), InputPrice(i))
                /\ t.difference = RSub(t.targetValue, t.currentValue)
                /\ (t.tradeAmount.n < 0) => (t.difference.n < 0)
                /\ (t.tradeAmount.n > 0) => (t.difference.n > 0)

\* a plan with a sale whose reported target value is not the one the last
\* solver round computed
C18_Witness ==
    /\ Returned
    /\ referenceTotal # previousReferenceTotal
    /\ \E i \in TradeIndex :
          /\ assetTrades[i].tradeAmount.n < 0
          /\ assetTrades[i].targetValue #
                RMul(assetTrades[i].targetWeight, previousReferenceTotal)
    /\ \E i \in TradeIndex : RIsPos(assetTrades[i].tradeAmount)

\* C19: the buy loop never buys an asset past its own gap: in every round
\* and in the returned plan, shares bought x price <= difference for every
\* underweight asset, so a buy's tradeAmount never exceeds its difference.
C19_NeverPastOwnGap ==
    /\ \A k \in 1..Len(underweightAssets) :
          LET u == underweightAssets[k]
          IN  RLe(RMul(Num(SharesOf(shareAllocations, u.ticker)),
                       PriceOf(prices, u.ticker)),
                  u.difference)
    /\ Returned =>
          \A i \in TradeIndex :
              (assetTrades[i].difference.n > 0) =>
                  RLe(assetTrades[i].tradeAmount, assetTrades[i].difference)

\* an asset that was bought, whose price still fits the budget left over but
\* no longer fits its own gap
C19_Witness ==
    /\ Returned
    /\ \E i \in TradeIndex :
          /\ RIsPos(assetTrades[i].tradeAmount)
          /\ RLe(InputPrice(i), remainingBudget)
          /\ RLt(RSub(assetTrades[i].difference, assetTrades[i].tradeAmount),
                 InputPrice(i))

\* the sole asset holds nothing and has a price
SoleAsset ==
    /\ Returned
    /\ Len(assets) = 1
    /\ assets[1].quantity = 0
    /\ ~Unpriced(1)

\* Scenario A: priority 1, quantity 0, price 10, cash 100, allowSell false
ScenarioA ==
    /\ SoleAsset
    /\ assets[1].priority = 1
    /\ prices[assets[1].ticker] = 10
    /\ availableCash = Num(100)
    /\ ~allowSell

ScenarioAPlan ==
    ScenarioA => /\ assetTrades[1].tradeAmount = Num(100)
                 /\ assetTrades[1].tradeQuantity = 10

\* whole shares of the sole asset that the cash pays for
AffordableShares == availableCash.n \div (availableCash.d * prices[assets[1].ticker])

C20_QuantityIsSharesBought ==
    Returned =>
        \A i \in TradeIndex :
            /\ assetTrades[i].tradeQuantity = shareAllocations[assetTrades[i].ticker]
            /\ assetTrades[i].tradeAmount =
                  DMul(DFromInt(assetTrades[i].tradeQuantity), assetTrades[i].price)

\* the underweight assets that qualify for a share in this round
Candidates ==
    {k \in 1..Len(underweightAssets) :
        CanAcceptShare(underweightAssets[k], prices, shareAllocations, remainingBudget)}

CandidatePrice(k) == prices[underweightAssets[k].ticker]
CandidatePriority(k) == underweightAssets[k].priority

\* a round of the buy loop that buys
BuyingRound == pc = "buy" /\ buyIteration' # buyIteration

\* the round buys one share of candidate w and nothing else
BuysOneShareOf(w) ==
    /\ shareAllocations' =
          [shareAllocations EXCEPT ![underweightAssets[w].ticker] = @ + 1]
    /\ remainingBudget' = RSub(remainingBudget, Num(CandidatePrice(w)))
    /\ buyIteration' = buyIteration + 1

\* score(j) <= score(w) and score(j) < score(w) for the score
\* (priority / sum of the candidates' priorities) / price: the sum is the
\* same for both, so the scores compare as priority / price, and with a sum
\* of 0 no score is above another
PriorityScoreLe(j, w) ==
    CandidatePriority(j) * CandidatePrice(w) <= CandidatePriority(w) * CandidatePrice(j)
PriorityScoreLt(j, w) ==
    CandidatePriority(j) * CandidatePrice(w) < CandidatePriority(w) * CandidatePrice(j)

\* C21 as stated: every buying round buys one share of the candidate with
\* the highest (priority / sum of priorities) / price, the earliest on equal
\* scores, takes its price off the budget and changes no other share count.
C21_HighestPriorityScoreWins ==
    [][BuyingRound =>
          \E w \in Candidates :
              /\ \A j \in Candidates : PriorityScoreLe(j, w)
              /\ \A j \in Candidates : (j < w) => PriorityScoreLt(j, w)
              /\ BuysOneShareOf(w)]_vars

\* the sum of the candidates' priorities is 0
NoCandidatePriority == \A k \in Candidates : CandidatePriority(k) = 0

\* the scores the code sorts by: with a priority sum of 0 the score is
\* (1 / number of candidates) / price, and the scores compare as 1 / price
CodeScoreLe(j, w) ==
    IF NoCandidatePriority THEN CandidatePrice(w) <= CandidatePrice(j)
    ELSE PriorityScoreLe(j, w)
CodeScoreLt(j, w) ==
    IF NoCandidatePriority THEN CandidatePrice(w) < CandidatePrice(j)
    ELSE PriorityScoreLt(j, w)

\* C21: every buying round buys one share of the candidate with the highest
\* score, the earliest on equal scores, where the score is (priority / sum
\* of the candidates' priorities) / price, or (1 / number of candidates) /
\* price when that sum is 0; it takes the share's price off the budget and
\* changes no other share count.
C21_HighestScoreWins ==
    [][BuyingRound =>
          \E w \in Candidates :
              /\ \A j \in Candidates : CodeScoreLe(j, w)
              /\ \A j \in Candidates : (j < w) => CodeScoreLt(j, w)
              /\ BuysOneShareOf(w)]_vars

\* the loop has bought shares of two assets, the second of them more than
\* once
C21_Witness ==
    /\ pc = "buy"
    /\ Len(underweightAssets) = 2
    /\ shareAllocations[underweightAssets[1].ticker] > 0
    /\ shareAllocations[underweightAssets[2].ticker] > 1

\* the buy loop ran and is over
BuyLoopOver ==
    /\ pc \in {"convert", "merge", "done"}
    /\ DOMAIN shareAllocations # {}

\* what is left of the gap of underweight asset k after the shares bought
GapLeft(k) ==
    RSub(underweightAssets[k].difference,
         RMul(Num(shareAllocations[underweightAssets[k].ticker]),
              Num(prices[underweightAssets[k].ticker])))

\* one more whole share of underweight asset k cannot be bought
NoShareFits(k) ==
    LET t == underweightAssets[k].ticker
    IN  \/ t \notin DOMAIN prices
        \/ prices[t] = 0
        \/ RLt(remainingBudget, Num(prices[t]))
        \/ RLt(GapLeft(k), Num(prices[t]))

\* C22: a buy loop that ended before its 10000th purchase ended because no
\* underweight asset qualified: each has price 0, a price above the
\* remaining budget or a remaining gap below its price; and with a buy
\* budget of 0 or no underweight asset nothing is bought.
C22_StopsOnlyWhenNothingFits ==
    /\ (BuyLoopOver /\ buyIteration < AuctionMaxIterations) =>
          \A k \in 1..Len(underweightAssets) : NoShareFits(k)
    /\ (pc \in {"merge", "done"}
        /\ (Len(underweightAssets) = 0 \/ RLe(buyBudget, Zero))) =>
          /\ buyIteration = 0
          /\ buyAllocations = EmptyMap
          /\ Returned =>
                /\ totalBuys = Zero
                /\ \A i \in TradeIndex : ~RIsPos(assetTrades[i].tradeAmount)

\* underweight asset k has a price
Priced(k) ==
    /\ underweightAssets[k].ticker \in DOMAIN prices
    /\ prices[underweightAssets[k].ticker] > 0

\* a loop that bought and then ended because the budget no longer pays for
\* a share of an asset whose gap still has room for one
C22_Witness ==
    /\ Returned
    /\ BuyLoopOver
    /\ buyIteration > 0
    /\ buyIteration < AuctionMaxIterations
    /\ \E k \in 1..Len(underweightAssets) :
          /\ Priced(k)
          /\ RLt(remainingBudget, Num(prices[underweightAssets[k].ticker]))
          /\ ~RLt(GapLeft(k), Num(prices[underweightAssets[k].ticker]))

\* ------------------------------------------------------------------------
\* C23  For every sold asset (tradeAmount < 0, price > 0) tradeQuantity is
\* -floor(abs(tradeAmount) / price), so that
\* abs(tradeQuantity) * price <= abs(tradeAmount) < (abs(tradeQuantity) + 1) * price,
\* and totalSells counts the full overweight amount, not the value of the
\* whole shares.  The products and comparisons are the program's own, in
\* binary64.
\* ------------------------------------------------------------------------
SoldAt(i) == DIsNeg(assetTrades[i].tradeAmount) /\ assetTrades[i].price.m # <<>>

\* abs(tradeAmount) of trade i is below the value of n shares
AmountBelowShares(i, n) ==
    DLess(assetTrades[i].tradeAmount.abs, DMul(DFromInt(n), assetTrades[i].price))

RoundComputed == (pc = "solve" /\ iteration > 0) \/ pc = "trades"

StateIndex == 1..Len(assetStates)

\* what the overweight of state i adds to the proceeds
Overweight(i) ==
    IF RLt(assetStates[i].difference, Zero)
    THEN RSub(Zero, assetStates[i].difference)
    ELSE Zero

C24_ProceedsAreTheOverweights ==
    RoundComputed =>
        /\ ~allowSell => allowedSellProceeds = Zero
        /\ allowSell =>
              allowedSellProceeds = RSum([i \in StateIndex |-> Overweight(i)])
        /\ (\A i \in StateIndex : RGe(assetStates[i].difference, Zero)) =>
              allowedSellProceeds = Zero
        /\ RGe(allowedSellProceeds, Zero)

\* selling is allowed, one state is overweight and another underweight
C24_Witness ==
    /\ RoundComputed
    /\ allowSell
    /\ \E i, j \in StateIndex :
          /\ RIsNeg(assetStates[i].difference)
          /\ RIsPos(assetStates[j].difference)
    /\ RIsPos(allowedSellProceeds)

\* ------------------------------------------------------------------------
\* C25  fetchAllPrices resolves only after every request has completed or
\* failed; its price mapping then has an entry for every requested ticker,
\* price 0 for a failed request; the mapping does not depend on the order in
\* which the requests end, and a failed request never makes the call fail.
\* (A ticker requested more than once gets the result of its last request in
\* list order.)
\* ------------------------------------------------------------------------
RequestIndex == DOMAIN results

\* the last request for ticker t, in list order
LastRequest(t) ==
    CHOOSE i \in RequestIndex :
        /\ assets[i].ticker = t
        /\ \A j \in RequestIndex : assets[j].ticker = t => j <= i

\* the price a response stands for
PriceFrom(response) == IF response.failed THEN 0 ELSE response.price

C25_ResolvesWithEveryTicker ==
    /\ pc # "failed"
    /\ pc = "fetched" =>
          /\ \A i \in RequestIndex : results[i].state = "fulfilled"
          /\ {completed[k] : k \in 1..Len(completed)} = RequestIndex
          /\ DOMAIN prices = TickersOf(assets)
          /\ \A t \in TickersOf(assets) :
                prices[t] = PriceFrom(results[LastRequest(t)].response)

\* resolved after requests that ended out of list order, one of them failed
\* and one with a price
C25_Witness ==
    /\ pc = "fetched"
    /\ Len(completed) >= 2
    /\ completed[1] > completed[2]
    /\ \E i, j \in RequestIndex :
          /\ results[i].response.failed
          /\ ~results[j].response.failed
          /\ results[j].response.price > 0
          /\ assets[i].ticker # assets[j].ticker
          /\ prices[assets[i].ticker] = 0
          /\ prices[assets[j].ticker] > 0

HoldingValue(i) == RMul(Num(assets[i].quantity), InputPrice(i))

C27_SellWithinHolding ==
    Returned =>
        \A i \in TradeIndex : RLt(assetTrades[i].tradeAmount, Zero) =>
            /\ RLe(RSub(Zero, assetTrades[i].tradeAmount), assetTrades[i].currentValue)
            /\ RLe(RSub(Zero, assetTrades[i].tradeAmount), HoldingValue(i))
            /\ assetTrades[i].tradeQuantity <= 0
            /\ -assetTrades[i].tradeQuantity <= assets[i].quantity

\* one asset is sold whole and another in part, shares and amount
C27_Witness ==
    /\ Returned
    /\ \E i, j \in TradeIndex :
          /\ RIsNeg(assetTrades[i].tradeAmount)
          /\ -assetTrades[i].tradeQuantity = assets[i].quantity
          /\ RIsNeg(assetTrades[j].tradeAmount)
          /\ RLt(RSub(Zero, assetTrades[j].tradeAmount), HoldingValue(j))
          /\ -assetTrades[j].tradeQuantity < assets[j].quantity

\* ------------------------------------------------------------------------
\* C28  With weights from calculateTargetWeights and a total priority > 0,
\* an asset of priority 0 has targetWeight 0 and is never bought
\* (tradeAmount <= 0); with allowSell and a price and a quantity > 0 it is
\* sold entirely: tradeAmount = -currentValue and tradeQuantity = -quantity.
\* ------------------------------------------------------------------------
\* asset i has priority 0 while some asset has more
UnwantedAt(i) ==
    /\ assets[i].priority = 0
    /\ \E j \in 1..Len(assets) : assets[j].priority > 0

C28_UnwantedSoldEntirely ==
    Returned =>
        \A i \in TradeIndex : UnwantedAt(i) =>
            /\ assetTrades[i].targetWeight = DZero
            /\ ~DIsPos(assetTrades[i].tradeAmount)
            /\ (allowSell /\ prices[assets[i].ticker] # DZero /\ assets[i].quantity > 0) =>
                  /\ assetTrades[i].tradeAmount = DSigned(TRUE, assetTrades[i].currentValue)
                  /\ assetTrades[i].tradeQuantity = -assets[i].quantity

====
